---- MODULE Spec2Model ----
(***************************************************************************)
(* A model of index.cjs, the Markdown to HTML/PDF converter: heading       *)
(* extraction, anchor ids, the table of contents, anchor injection, image  *)
(* remapping / copying / embedding, and the two conversion drivers         *)
(* convertToHtml and convertToPdf.                                         *)
(*                                                                         *)
(* A JavaScript string is a sequence of one-character strings, so that     *)
(* the regular expressions and the replace/trim/split calls of the source  *)
(* are computed character by character.  A document is the sequence of its *)
(* lines (the value of content.split("\n")).  Rendered markup is a         *)
(* sequence of elements; an element is a heading (level, inner text, id)   *)
(* or an image (src).                                                      *)
(***************************************************************************)
EXTENDS Integers, Sequences, FiniteSets, TLC

VARIABLES
    files,               \* markdownFiles: the discovered input paths, in traversal order
    content,             \* the text of every input file: path -> sequence of lines
    srcFs,               \* the image files on disk: resolved path -> bytes
    mappings,            \* imagePathConfig.pathMappings
    format,              \* options.format
    single,              \* options.single
    pc,                  \* where the run is
    idx,                 \* index of the file the driver loop is at
    allContent,          \* convertToHtml/convertToPdf: allContent
    allHeadings,         \* ... allHeadings
    allImagePaths,       \* ... allImagePaths
    allImageOutputPaths, \* ... allImageOutputPaths
    outFs,               \* the files written below outputDir: path -> what was written
    browser,             \* the puppeteer browser: "none", "open", "closed"
    fullHtml,            \* convertToPdf: the document assembled for the current unit
    page,                \* what page.setContent last loaded
    caught,              \* TRUE once main's .catch handler has run
    lookups,             \* history: every fs.existsSync(resolvedImagePath) that was made
    events,              \* history: the calls convertToPdf made on browser and page
    fn, arg, ret          \* a single call of one pure function: its name, input, result

vars == <<files, content, srcFs, mappings, format, single, pc, idx, allContent,
          allHeadings, allImagePaths, allImageOutputPaths, outFs, browser, fullHtml,
          page, caught, lookups, events, fn, arg, ret>>

-----------------------------------------------------------------------------
(* JavaScript strings *)

Min(S) == CHOOSE x \in S : \A y \in S : x <= y
Max(S) == CHOOSE x \in S : \A y \in S : x >= y

\* \s of a JavaScript regular expression, over the characters of the model
Whitespace == {" ", "\t", "\r", "\n"}
\* . of a JavaScript regular expression matches anything but a line terminator
LineTerminators == {"\n", "\r"}

UpperCase == <<"A","B","C","D","E","F","G","H","I","J","K","L","M",
               "N","O","P","Q","R","S","T","U","V","W","X","Y","Z">>
LowerCase == <<"a","b","c","d","e","f","g","h","i","j","k","l","m",
               "n","o","p","q","r","s","t","u","v","w","x","y","z">>
Digits == {"0","1","2","3","4","5","6","7","8","9"}
Range(s) == {s[k] : k \in 1..Len(s)}
Letters == Range(UpperCase) \cup Range(LowerCase)
AlphaNum == Letters \cup Digits

\* String.prototype.toLowerCase, one character
LowerChar(c) ==
    IF c \in Range(UpperCase)
    THEN LowerCase[CHOOSE k \in 1..26 : UpperCase[k] = c]
    ELSE c
toLowerCase(s) == [k \in 1..Len(s) |-> LowerChar(s[k])]

\* s.substring(i - 1, j) with 1-based inclusive bounds
Sub(s, i, j) == IF i > j THEN <<>> ELSE SubSeq(s, i, j)

\* does pat occur in s at position i
OccursAt(s, pat, i) ==
    /\ i >= 1
    /\ i + Len(pat) - 1 <= Len(s)
    /\ \A k \in 1..Len(pat) : s[i + k - 1] = pat[k]

\* s.indexOf(pat, from), 1-based; 0 when pat does not occur
IndexOf(s, pat, from) ==
    LET hits == {i \in from..(Len(s) - Len(pat) + 1) : OccursAt(s, pat, i)}
    IN  IF hits = {} THEN 0 ELSE Min(hits)

\* String.prototype.trim
trim(s) ==
    LET keep == {k \in 1..Len(s) : s[k] \notin Whitespace}
    IN  IF keep = {} THEN <<>> ELSE Sub(s, Min(keep), Max(keep))

\* the characters of s that satisfy keep, in order: s.replace(/[^...]/g, "")
RECURSIVE Filter(_, _)
Filter(s, keepSet) ==
    IF s = <<>> THEN <<>>
    ELSE (IF Head(s) \in keepSet THEN <<Head(s)>> ELSE <<>>) \o Filter(Tail(s), keepSet)

\* a replacement string as String.prototype.replace expands it: "$$" inserts
\* "$" and "$&" inserts the matched text; a "$" before any other character of
\* the model's alphabet stands for itself
RECURSIVE GetSubstitution(_, _)
GetSubstitution(rep, matched) ==
    IF rep = <<>> THEN <<>>
    ELSE IF Head(rep) = "$" /\ Len(rep) >= 2 /\ rep[2] = "$"
         THEN <<"$">> \o GetSubstitution(Sub(rep, 3, Len(rep)), matched)
    ELSE IF Head(rep) = "$" /\ Len(rep) >= 2 /\ rep[2] = "&"
         THEN matched \o GetSubstitution(Sub(rep, 3, Len(rep)), matched)
    ELSE <<Head(rep)>> \o GetSubstitution(Tail(rep), matched)

\* s.replace(new RegExp(escaped pat, "g"), rep): every occurrence of the
\* literal pat, scanning left to right, occurrences not overlapping
RECURSIVE ReplaceAllFrom(_, _, _, _)
ReplaceAllFrom(s, pat, rep, from) ==
    LET at == IndexOf(s, pat, from)
    IN  IF pat = <<>> \/ at = 0 THEN Sub(s, from, Len(s))
        ELSE Sub(s, from, at - 1) \o GetSubstitution(rep, pat)
             \o ReplaceAllFrom(s, pat, rep, at + Len(pat))
ReplaceAll(s, pat, rep) == ReplaceAllFrom(s, pat, rep, 1)

\* s.split(sep) for a one-character separator
RECURSIVE Split(_, _)
Split(s, sep) ==
    LET at == IndexOf(s, <<sep>>, 1)
    IN  IF at = 0 THEN <<s>>
        ELSE <<Sub(s, 1, at - 1)>> \o Split(Sub(s, at + 1, Len(s)), sep)

\* parts.join(sep)
RECURSIVE Join(_, _)
Join(parts, sep) ==
    IF parts = <<>> THEN <<>>
    ELSE IF Len(parts) = 1 THEN parts[1]
    ELSE parts[1] \o sep \o Join(Tail(parts), sep)

\* the concatenation of a sequence of sequences
RECURSIVE Flatten(_)
Flatten(ss) == IF ss = <<>> THEN <<>> ELSE Head(ss) \o Flatten(Tail(ss))

\* "x".repeat(n)
RECURSIVE Repeat(_, _)
Repeat(s, n) == IF n <= 0 THEN <<>> ELSE s \o Repeat(s, n - 1)

-----------------------------------------------------------------------------
(* slugify(text, { lower: true, strict: true, replacement: "-" }) *)

\* slugify's character map, for the symbols of the model's alphabet
charMap(c) ==
    CASE c = "$" -> <<"d","o","l","l","a","r">>
      [] c = "&" -> <<"a","n","d">>
      [] c = "%" -> <<"p","e","r","c","e","n","t">>
      [] OTHER   -> <<c>>

\* the characters slugify keeps before the strict pass: [\w\s$*_+~.()'"!\-:@]
SlugAllowed == AlphaNum \cup Whitespace
               \cup {"$", "*", "_", "+", "~", ".", "(", ")", "'", "\"", "!", "-", ":", "@"}

\* one character of the reduce step: map it, turn the replacement character
\* into a space, drop what is not allowed
SlugAppend(c) ==
    LET mapped == charMap(c)
        spaced == IF mapped = <<"-">> THEN <<" ">> ELSE mapped
    IN  Filter(spaced, SlugAllowed)

\* slug.replace(/\s+/g, "-"): every maximal run of whitespace becomes one hyphen
RECURSIVE CollapseWhitespace(_)
CollapseWhitespace(s) ==
    IF s = <<>> THEN <<>>
    ELSE IF Head(s) \in Whitespace
         THEN LET rest == {k \in 1..Len(s) : s[k] \notin Whitespace}
              IN  <<"-">> \o (IF rest = {} THEN <<>>
                              ELSE CollapseWhitespace(Sub(s, Min(rest), Len(s))))
    ELSE <<Head(s)>> \o CollapseWhitespace(Tail(s))

slugify_keepcase(text) ==
    LET reduced == Flatten([k \in 1..Len(text) |-> SlugAppend(text[k])])
        strict  == Filter(reduced, AlphaNum \cup Whitespace)
    IN  CollapseWhitespace(trim(strict))

slugify(text) ==
    LET reduced == Flatten([k \in 1..Len(text) |-> SlugAppend(text[k])])
        strict  == Filter(reduced, AlphaNum \cup Whitespace)
    IN  toLowerCase(CollapseWhitespace(trim(strict)))

-----------------------------------------------------------------------------
(* extractHeadings, generateTOC *)

\* the largest n of #{1,6} in the heading pattern
MaxHeadingLevel == 6

Hash == "#"

\* line.match(/^(#{1,6})\s+(.+)$/): the pairs <<n, k>> with n hashes, then k
\* whitespace characters, then a non-empty rest without a line terminator
\* that reaches the end of the line
HeadingMatches(line) ==
    {nk \in (1..MaxHeadingLevel) \X (1..Len(line)) :
        /\ nk[1] + nk[2] < Len(line)
        /\ \A p \in 1..nk[1] : line[p] = Hash
        /\ \A p \in (nk[1] + 1)..(nk[1] + nk[2]) : line[p] \in Whitespace
        /\ \A p \in (nk[1] + nk[2] + 1)..Len(line) : line[p] \notin LineTerminators}

\* the match the regular expression engine returns: both quantifiers greedy
HeadingMatch(line) ==
    LET ms == HeadingMatches(line)
        n  == Max({nk[1] : nk \in ms})
        k  == Max({nk[2] : nk \in {m \in ms : m[1] = n}})
    IN  [level |-> n, rest |-> Sub(line, n + k + 1, Len(line))]

\* the record pushed for a matching line
HeadingOf(line) ==
    LET m == HeadingMatch(line)
    IN  [level |-> m.level, text |-> trim(m.rest), id |-> slugify(trim(m.rest))]

RECURSIVE extractHeadings(_)
extractHeadings(lines) ==
    IF lines = <<>> THEN <<>>
    ELSE (IF HeadingMatches(Head(lines)) # {} THEN <<HeadingOf(Head(lines))>> ELSE <<>>)
         \o extractHeadings(Tail(lines))

\* generateCSS: padding-left of .toc-level-1 .. .toc-level-6, in px
tocLevelPadding == <<0, 20, 40, 60, 80, 100>>

\* one <li class="toc-level-N"><a href="#id">text</a></li> of generateTOC
TocEntry(heading) ==
    [indent      |-> Repeat(<<" ", " ">>, heading.level - 1),
     class       |-> heading.level,
     href        |-> <<"#">> \o heading.id,
     displayText |-> ReplaceAll(heading.text, <<"*", "*">>, <<>>)]

generateTOC(headings) == [k \in 1..Len(headings) |-> TocEntry(headings[k])]

-----------------------------------------------------------------------------
(* imagePathConfig, options.remap, remapImagePath *)

str_assets  == <<"/","a","s","s","e","t","s","/">>
str__assets == <<"/","_","a","s","s","e","t","s","/">>

\* imagePathConfig.pathMappings as the module initialises it
DefaultMappings == << [from |-> str_assets, to |-> str__assets] >>

\* one "from:to" pair of --remap; <<>> when from or to is missing or empty
RemapPair(pair) ==
    LET parts == Split(pair, ":")
    IN  IF Len(parts) >= 2 /\ parts[1] # <<>> /\ parts[2] # <<>>
        THEN << [from |-> parts[1], to |-> parts[2]] >>
        ELSE <<>>

\* the mappings after the option was processed: an empty option keeps the default
ParseRemap(option) ==
    IF option = <<>> THEN DefaultMappings
    ELSE LET pairs == Split(option, ",")
         IN  Flatten([k \in 1..Len(pairs) |-> RemapPair(pairs[k])])

str_http  == <<"h","t","t","p",":","/","/">>
str_https == <<"h","t","t","p","s",":","/","/">>

\* imagePath.match(/^https?:\/\//i)
IsExternal(imagePath) ==
    \/ OccursAt(toLowerCase(imagePath), str_http, 1)
    \/ OccursAt(toLowerCase(imagePath), str_https, 1)

RECURSIVE ApplyMappings(_, _)
ApplyMappings(path, ms) ==
    IF ms = <<>> THEN path
    ELSE ApplyMappings(ReplaceAll(path, Head(ms).from, Head(ms).to), Tail(ms))

remapImagePath(imagePath, ms) ==
    IF IsExternal(imagePath) THEN [path |-> imagePath, isExternal |-> TRUE]
    ELSE [path |-> ApplyMappings(imagePath, ms), isExternal |-> FALSE]

-----------------------------------------------------------------------------
(* path: the POSIX functions of Node's path module that the source calls *)

Slash == "/"

\* the working directory of the process
Cwd == <<"/", "w">>

IsAbsolute(p) == p # <<>> /\ p[1] = Slash

\* the segments of a path with "", "." dropped and ".." applied
RECURSIVE NormalizeSegments(_, _, _)
NormalizeSegments(segs, acc, abs) ==
    IF segs = <<>> THEN acc
    ELSE LET seg == Head(segs)
         IN  IF seg = <<>> \/ seg = <<".">>
             THEN NormalizeSegments(Tail(segs), acc, abs)
             ELSE IF seg = <<".", ".">>
             THEN IF acc # <<>> /\ acc[Len(acc)] # <<".", ".">>
                  THEN NormalizeSegments(Tail(segs), Sub(acc, 1, Len(acc) - 1), abs)
                  ELSE IF abs THEN NormalizeSegments(Tail(segs), acc, abs)
                  ELSE NormalizeSegments(Tail(segs), Append(acc, seg), abs)
             ELSE NormalizeSegments(Tail(segs), Append(acc, seg), abs)

\* path.normalize
\* the normalized segments `body' with the root and the trailing slash of
\* the path put back
Rooted(body, abs, trailing) ==
    IF body = <<>> THEN (IF abs THEN <<Slash>>
                         ELSE IF trailing THEN <<".", Slash>> ELSE <<".">>)
    ELSE (IF abs THEN <<Slash>> ELSE <<>>) \o body
         \o (IF trailing THEN <<Slash>> ELSE <<>>)

normalize(p) ==
    IF p = <<>> THEN <<".">>
    ELSE Rooted(Join(NormalizeSegments(Split(p, Slash), <<>>, IsAbsolute(p)), <<Slash>>),
                IsAbsolute(p), p[Len(p)] = Slash)

\* path.join(a, b): empty arguments are skipped
join(a, b) ==
    normalize(IF a = <<>> THEN b ELSE IF b = <<>> THEN a ELSE a \o <<Slash>> \o b)

\* path.resolve(from, to): an absolute path, without a trailing slash
resolve(from, to) ==
    LET full == IF IsAbsolute(to) THEN to
                ELSE IF IsAbsolute(from) THEN from \o <<Slash>> \o to
                ELSE Cwd \o <<Slash>> \o from \o <<Slash>> \o to
    IN  <<Slash>> \o Join(NormalizeSegments(Split(full, Slash), <<>>, TRUE), <<Slash>>)

\* path.dirname
dirname(p) ==
    LET ends == {k \in 2..Len(p) :
                    p[k] = Slash /\ \E m \in (k + 1)..Len(p) : p[m] # Slash}
    IN  IF ends = {} THEN (IF IsAbsolute(p) THEN <<Slash>> ELSE <<".">>)
        ELSE IF IsAbsolute(p) /\ Max(ends) = 2 THEN <<Slash, Slash>>
        ELSE Sub(p, 1, Max(ends) - 1)

\* path.basename(p)
basename(p) ==
    LET solid == {k \in 1..Len(p) : p[k] # Slash}
    IN  IF solid = {} THEN <<>>
        ELSE LET last   == Max(solid)
                 before == {k \in 1..last : p[k] = Slash}
             IN  Sub(p, IF before = {} THEN 1 ELSE Max(before) + 1, last)

\* path.basename(p, ext)
basenameExt(p, ext) ==
    LET base == basename(p)
    IN  IF Len(base) > Len(ext) /\ OccursAt(base, ext, Len(base) - Len(ext) + 1)
        THEN Sub(base, 1, Len(base) - Len(ext))
        ELSE base

\* path.extname
extname(p) ==
    LET base == basename(p)
        dots == {k \in 2..Len(base) : base[k] = "."}
    IN  IF dots = {} \/ base = <<".", ".">> THEN <<>> ELSE Sub(base, Max(dots), Len(base))

str_md == <<".", "m", "d">>

-----------------------------------------------------------------------------
(* the files on disk, Buffer.toString("base64") *)

FileImage(bs, source) ==
    [kind |-> "image", bytes |-> bs, title |-> <<>>, toc |-> <<>>,
     body |-> <<>>, from |-> <<source>>]

\* fs.existsSync on the source tree
existsSync(fs, p) == p \in DOMAIN fs

\* writing a file replaces what the path held
WriteFile(fs, p, file) == [q \in (DOMAIN fs) \cup {p} |-> IF q = p THEN file ELSE fs[q]]

Base64Alphabet == UpperCase \o LowerCase
                  \o <<"0","1","2","3","4","5","6","7","8","9","+","/">>

\* the 4 characters of one group of 1, 2 or 3 bytes
Base64Group(g) ==
    LET b1 == g[1]
        b2 == IF Len(g) >= 2 THEN g[2] ELSE 0
        b3 == IF Len(g) >= 3 THEN g[3] ELSE 0
        c1 == b1 \div 4
        c2 == (b1 % 4) * 16 + (b2 \div 16)
        c3 == (b2 % 16) * 4 + (b3 \div 64)
        c4 == b3 % 64
    IN  << Base64Alphabet[c1 + 1], Base64Alphabet[c2 + 1],
           IF Len(g) >= 2 THEN Base64Alphabet[c3 + 1] ELSE "=",
           IF Len(g) >= 3 THEN Base64Alphabet[c4 + 1] ELSE "=" >>

\* imageBuffer.toString("base64")
RECURSIVE toBase64(_)
toBase64(bs) ==
    IF bs = <<>> THEN <<>>
    ELSE IF Len(bs) <= 3 THEN Base64Group(bs)
    ELSE Base64Group(Sub(bs, 1, 3)) \o toBase64(Sub(bs, 4, Len(bs)))

str_image  == <<"i","m","a","g","e","/">>
str_jpeg   == <<"j","p","e","g">>
str_svgxml == <<"s","v","g","+","x","m","l">>

\* the switch on the extension in convertImagesToBase64
mimeType(ext) ==
    IF ext = <<"j","p","g">> \/ ext = str_jpeg THEN str_image \o str_jpeg
    ELSE IF ext = <<"s","v","g">> THEN str_image \o str_svgxml
    ELSE str_image \o ext

str_data   == <<"d","a","t","a",":">>
str_base64 == <<";","b","a","s","e","6","4",",">>

\* s.substring(1)
substring1(s) == Sub(s, 2, Len(s))

\* `data:${mimeType};base64,${base64Image}`
dataUri(resolvedImagePath, bs) ==
    str_data \o mimeType(toLowerCase(substring1(extname(resolvedImagePath))))
    \o str_base64 \o toBase64(bs)

-----------------------------------------------------------------------------
(* extractImagePaths *)

NoTerminator(s, i, j) == \A k \in i..j : s[k] \notin LineTerminators

\* where (?:\s+".*?")? followed by \) ends when it starts at e: the index of
\* the closing parenthesis, 0 when there is no match.  The quoted title is
\* tried first.
TitleEnd(line, e) ==
    LET solid == {k \in e..Len(line) : line[k] \notin Whitespace}
        q1    == IF solid = {} THEN 0 ELSE Min(solid)
        q2s   == {k \in (q1 + 1)..(Len(line) - 1) :
                     /\ line[k] = "\""
                     /\ line[k + 1] = ")"
                     /\ NoTerminator(line, q1 + 1, k - 1)}
    IN  IF q1 = 0 \/ q1 = e \/ line[q1] # "\"" \/ q2s = {} THEN 0
        ELSE Min(q2s) + 1

\* where (?:\s+".*?")?\) ends when it starts at e.  A title starts with
\* whitespace at e, so at most one of the two alternatives applies.
TailEnd(line, e) ==
    IF e <= Len(line) /\ line[e] = ")" THEN e ELSE TitleEnd(line, e)

\* the matches of /!\[.*?\]\((.*?)(?:\s+".*?")?\)/ that start at a: <<b, e>>
\* with "](" at b and the captured path ending before e
ImageMatchesAt(line, a) ==
    IF ~OccursAt(line, <<"!", "[">>, a) THEN {}
    ELSE LET bs == {b \in (a + 2)..(Len(line) - 1) :
                       /\ OccursAt(line, <<"]", "(">>, b)
                       /\ NoTerminator(line, a + 2, b - 1)}
         IN  UNION { { <<b, e>> : e \in {x \in (b + 2)..(Len(line) + 1) :
                                            /\ NoTerminator(line, b + 2, x - 1)
                                            /\ TailEnd(line, x) # 0} } : b \in bs }

\* the match the regex engine reports among ms, triples <<a, b, e>>: the
\* leftmost start, then both lazy quantifiers as short as they can be; <<>>
\* when there is none
Leftmost(ms) ==
    IF ms = {} THEN <<>>
    ELSE CHOOSE m \in ms : \A o \in ms :
             \/ m[1] < o[1]
             \/ m[1] = o[1] /\ m[2] < o[2]
             \/ m[1] = o[1] /\ m[2] = o[2] /\ m[3] <= o[3]

\* the first match of regex.exec at or after `from'
FirstImageMatch(line, from) ==
    Leftmost(UNION { { <<a, be[1], be[2]>> : be \in ImageMatchesAt(line, a) } :
                     a \in from..(Len(line) - 1) })

RECURSIVE ImagePathsFrom(_, _)
\* imagePaths.push(match[1].trim()), and the search goes on after the match
PushImagePath(line, m) ==
    IF m = <<>> THEN <<>>
    ELSE <<trim(Sub(line, m[2] + 2, m[3] - 1))>>
         \o ImagePathsFrom(line, TailEnd(line, m[3]) + 1)

ImagePathsFrom(line, from) == PushImagePath(line, FirstImageMatch(line, from))

\* the pattern is applied to the whole text; no match of the model's
\* documents spans two lines
extractImagePaths(lines) ==
    Flatten([k \in 1..Len(lines) |-> ImagePathsFrom(lines[k], 1)])

-----------------------------------------------------------------------------
(* md.render: the markdown-it renderer, for the lines of the model *)

HeadingElement(n, text) ==
    [tag |-> "h", level |-> n, inner |-> text, hasId |-> FALSE, id |-> <<>>, src |-> <<>>]
ImageElement(path) ==
    [tag |-> "img", level |-> 0, inner |-> <<>>, hasId |-> FALSE, id |-> <<>>, src |-> path]
ParagraphElement(text) ==
    [tag |-> "p", level |-> 0, inner |-> text, hasId |-> FALSE, id |-> <<>>, src |-> <<>>]

\* markdown-it reads \r\n as one line break
MdLine(line) ==
    IF line # <<>> /\ line[Len(line)] = "\r" THEN Sub(line, 1, Len(line) - 1) ELSE line

\* the number of # that open an ATX heading: 1 to 6, then a space, a tab or
\* the end of the line; 0 when the line is no heading
MdHeadingLevel(line) ==
    LET other == {k \in 1..Len(line) : line[k] # Hash}
        n     == IF other = {} THEN Len(line) ELSE Min(other) - 1
    IN  IF n >= 1 /\ n <= MaxHeadingLevel
           /\ (n = Len(line) \/ line[n + 1] \in {" ", "\t"})
        THEN n ELSE 0

\* md.utils.escapeHtml, which the renderer applies to text and to the value
\* of every attribute
escapeChar(c) ==
    CASE c = "&"  -> <<"&","a","m","p",";">>
      [] c = "<"  -> <<"&","l","t",";">>
      [] c = ">"  -> <<"&","g","t",";">>
      [] c = "\"" -> <<"&","q","u","o","t",";">>
      [] OTHER    -> <<c>>
escapeHtml(s) == Flatten([k \in 1..Len(s) |-> escapeChar(s[k])])

\* the elements one line renders to: <hN>text</hN>, <img src="path" alt="">
\* for every image of a paragraph, or the paragraph itself.  The texts of the
\* model hold nothing the typographer or linkify would rewrite, but for the
\* file name of a chunk heading, which no heading record names.
RenderBlock(line, n, imgs) ==
    IF n > 0 THEN <<HeadingElement(n, escapeHtml(trim(Sub(line, n + 1, Len(line)))))>>
    ELSE IF imgs # <<>> THEN [k \in 1..Len(imgs) |-> ImageElement(escapeHtml(imgs[k]))]
    ELSE IF trim(line) = <<>> THEN <<>>
    ELSE <<ParagraphElement(escapeHtml(trim(line)))>>

RenderLine(line) == RenderBlock(line, MdHeadingLevel(line), ImagePathsFrom(line, 1))

md_render(lines) == Flatten([k \in 1..Len(lines) |-> RenderLine(MdLine(lines[k]))])

-----------------------------------------------------------------------------
(* addHeadingIds *)

LevelDigit(n) == <<"0","1","2","3","4","5","6","7","8","9">>[n + 1]

\* `<hN>inner</hN>`: match[0]
HeadingTag(n, inner) ==
    <<"<", "h", LevelDigit(n), ">">> \o inner \o <<"<", "/", "h", LevelDigit(n), ">">>

\* the elements new RegExp(`<hN>(.*?)</hN>`, "g") matches: headings of the
\* level that carry no attribute
PlainHeadings(html, n) ==
    {k \in 1..Len(html) : html[k].tag = "h" /\ html[k].level = n /\ ~html[k].hasId}

\* a variant of addHeadingId: the id goes into every match, not the first only
addHeadingId_every(html, heading) ==
    [k \in 1..Len(html) |->
        IF /\ k \in PlainHeadings(html, heading.level)
           /\ trim(html[k].inner) = trim(heading.text)
        THEN [html[k] EXCEPT !.hasId = TRUE, !.id = heading.id]
        ELSE html[k]]

\* one pass of the forEach: the first match whose trimmed inner text is the
\* record's trimmed text; processedHtml.replace(original, replacement) then
\* rewrites the first occurrence of that element's markup
addHeadingId(html, heading) ==
    LET hits == {k \in PlainHeadings(html, heading.level) :
                    trim(html[k].inner) = trim(heading.text)}
    IN  IF hits = {} THEN html
        ELSE LET m      == Min(hits)
                 target == Min({k \in PlainHeadings(html, heading.level) :
                                   html[k].inner = html[m].inner})
             IN  [html EXCEPT ![target] =
                     [@ EXCEPT !.hasId = TRUE,
                               !.id    = GetSubstitution(heading.id,
                                             HeadingTag(heading.level, html[m].inner)),
                               !.inner = GetSubstitution(html[m].inner,
                                             HeadingTag(heading.level, html[m].inner))]]

RECURSIVE addHeadingIds(_, _)
addHeadingIds(html, headings) ==
    IF headings = <<>> THEN html
    ELSE addHeadingIds(addHeadingId(html, Head(headings)), Tail(headings))

-----------------------------------------------------------------------------
(* copyImages, processHtmlImagesForHtml, convertImagesToBase64 *)

\* options.output, left at its default
outputDir == <<"o","u","t","p","u","t">>

str_images == <<"i","m","a","g","e","s">>
str_dotslash == <<".", "/">>

\* one fs.existsSync(resolvedImagePath), as the history keeps it
Lookup(sourceFilePath, imagePath, pathToResolve, resolvedImagePath) ==
    [source |-> sourceFilePath, raw |-> imagePath, path |-> pathToResolve,
     resolved |-> resolvedImagePath]

\* path.dirname(pathToResolve).replace(/^\.\//, "")
StripDotSlash(dir) == IF OccursAt(dir, str_dotslash, 1) THEN Sub(dir, 3, Len(dir)) ELSE dir

RelativeDir(pathToResolve) == StripDotSlash(dirname(pathToResolve))

\* relativeDir === "." ? imagesOutputDir : nestedOutputDir
FinalOutputDir(imagesOutputDir, relativeDir) ==
    IF relativeDir = <<".">> THEN imagesOutputDir ELSE join(imagesOutputDir, relativeDir)

\* where copyImages writes the copy: path.join(finalOutputDir, fileName)
OutputPath(relativeDir, fileName) ==
    join(FinalOutputDir(join(outputDir, str_images), relativeDir), fileName)

\* the reference copyImages returns for a copied file
NewReference(relativeDir, fileName) ==
    IF relativeDir = <<".">>
    THEN str_images \o <<Slash>> \o fileName
    ELSE str_images \o <<Slash>> \o relativeDir \o <<Slash>> \o fileName

\* the map callback from path.resolve on: st is [paths, fs, looked], the
\* references returned so far, the output tree and the lookups made
copyResolved(sourceFilePath, imagePath, pathToResolve, resolvedImagePath, st) ==
    IF existsSync(srcFs, resolvedImagePath)
    THEN [paths  |-> Append(st.paths, NewReference(RelativeDir(pathToResolve),
                                                   basename(resolvedImagePath))),
          fs     |-> WriteFile(st.fs,
                               OutputPath(RelativeDir(pathToResolve),
                                          basename(resolvedImagePath)),
                               FileImage(srcFs[resolvedImagePath], resolvedImagePath)),
          looked |-> st.looked
                     \cup {Lookup(sourceFilePath, imagePath, pathToResolve,
                                  resolvedImagePath)}]
    ELSE [paths  |-> Append(st.paths, imagePath),
          fs     |-> st.fs,
          looked |-> st.looked
                     \cup {Lookup(sourceFilePath, imagePath, pathToResolve,
                                  resolvedImagePath)}]

\* the map callback from the result of remapImagePath on
copyRemapped(sourceFilePath, imagePath, remappedImage, st) ==
    IF remappedImage.isExternal
    THEN [st EXCEPT !.paths = Append(@, remappedImage.path)]
    ELSE copyResolved(sourceFilePath, imagePath, remappedImage.path,
                      resolve(dirname(sourceFilePath), remappedImage.path), st)

\* the map callback for one imagePath
copyImage(sourceFilePath, imagePath, st) ==
    IF IsExternal(imagePath)
    THEN [st EXCEPT !.paths = Append(@, imagePath)]
    ELSE copyRemapped(sourceFilePath, imagePath, remapImagePath(imagePath, mappings), st)

\* copyImages: imagePaths.map, from the state st
RECURSIVE copyImages(_, _, _)
copyImages(sourceFilePath, imagePaths, st) ==
    IF imagePaths = <<>> THEN st
    ELSE copyImages(sourceFilePath, Tail(imagePaths),
                    copyImage(sourceFilePath, Head(imagePaths), st))

\* the state a call of copyImages starts from
CopyState(fs, looked) == [paths |-> <<>>, fs |-> fs, looked |-> looked]

\* `src="${p}"`
SrcAttribute(p) == <<"s","r","c","=","\"">> \o p \o <<"\"">>

\* one iteration of processHtmlImagesForHtml: every src="orig" of the markup
\* becomes src="new", new read as a replacement string
rewriteSrc(html, orig, new) ==
    [k \in 1..Len(html) |->
        IF html[k].tag = "img" /\ html[k].src = orig
        THEN [html[k] EXCEPT !.src = GetSubstitution(new, SrcAttribute(orig))]
        ELSE html[k]]

RECURSIVE processHtmlImagesForHtml(_, _, _)
processHtmlImagesForHtml(html, originalPaths, newPaths) ==
    IF originalPaths = <<>> THEN html
    ELSE processHtmlImagesForHtml(rewriteSrc(html, Head(originalPaths), Head(newPaths)),
                                  Tail(originalPaths), Tail(newPaths))

\* the <img ... src="..."> tags imgRegex collects: the src is not empty
ImgTags(html) == SelectSeq(html, LAMBDA e : e.tag = "img" /\ e.src # <<>>)

\* processedHtml.replace(imgTag, newImgTag): the first tag of the markup
\* equal to imgTag gets the data URI.  A data URI of the model's files holds
\* no "$", so both replacement strings stand for themselves.
replaceImgTag(html, imgSrc, uri) ==
    LET same == {k \in 1..Len(html) : html[k].tag = "img" /\ html[k].src = imgSrc}
    IN  IF same = {} THEN html
        ELSE [html EXCEPT ![Min(same)] = [@ EXCEPT !.src = uri]]

\* one iteration of the loop over imgTags from path.resolve on: st is
\* [html, looked]
embedResolved(sourceFilePath, img, pathToResolve, resolvedImagePath, st) ==
    [html   |-> IF existsSync(srcFs, resolvedImagePath)
                THEN replaceImgTag(st.html, img.src,
                                   dataUri(resolvedImagePath, srcFs[resolvedImagePath]))
                ELSE st.html,
     looked |-> st.looked \cup {Lookup(sourceFilePath, img.src, pathToResolve,
                                       resolvedImagePath)}]

embedRemapped(sourceFilePath, img, remappedImage, st) ==
    IF remappedImage.isExternal THEN st
    ELSE embedResolved(sourceFilePath, img, remappedImage.path,
                       resolve(dirname(sourceFilePath), remappedImage.path), st)

\* one iteration of the loop over imgTags
embedImage(sourceFilePath, img, st) ==
    IF IsExternal(img.src) THEN st
    ELSE embedRemapped(sourceFilePath, img, remapImagePath(img.src, mappings), st)

RECURSIVE embedImages(_, _, _)
embedImages(sourceFilePath, imgTags, st) ==
    IF imgTags = <<>> THEN st
    ELSE embedImages(sourceFilePath, Tail(imgTags),
                     embedImage(sourceFilePath, Head(imgTags), st))

\* convertImagesToBase64(sourceFilePath, html): the tags are collected from
\* html first, the replacements are made in processedHtml
convertImagesToBase64(sourceFilePath, st) ==
    embedImages(sourceFilePath, ImgTags(st.html), st)

-----------------------------------------------------------------------------
(* the inputs of the model *)

\* the largest number of Markdown files a run discovers
MaxFiles == 2

str_intro_md == <<"i","n","t","r","o",".","m","d">>
str_guide_md == <<"g","u","i","d","e",".","m","d">>
str_pic_png  == <<"p","i","c",".","p","n","g">>
str_logo_png == <<"l","o","g","o",".","p","n","g">>
str_qa_png   == <<"q","&","a",".","p","n","g">>

file_a_intro == <<"a", Slash>> \o str_intro_md
file_b_intro == <<"b", Slash>> \o str_intro_md
file_a_guide == <<"a", Slash>> \o str_guide_md

\* the Markdown files that may exist below options.directory
FilePool == {file_a_intro, file_b_intro, file_a_guide}

str_Overview        == <<"O","v","e","r","v","i","e","w">>
str_Getting_Started == <<"G","e","t","t","i","n","g"," ","S","t","a","r","t","e","d">>

MdImage(path) == <<"!", "[", "]", "(">> \o path \o <<")">>

line_overview == <<Hash, Hash, " ">> \o str_Overview
line_started  == <<Hash, Hash, " ">> \o str_Getting_Started
line_pic      == MdImage(str_pic_png)
line_parent   == MdImage(<<".", ".", Slash>> \o str_pic_png)
line_nested   == MdImage(str_images \o <<Slash>> \o str_pic_png)
line_assets   == MdImage(str_assets \o str_logo_png)
line_external == MdImage(<<"H","t","t","p","s",":","/","/","h","/","p","$","$",".","p","n","g">>)
line_cdn      == MdImage(str_http \o <<"h", Slash>> \o str_pic_png)
line_amp      == MdImage(str_qa_png)
\* a heading line of a file with \r\n line ends
line_crlf     == <<Hash, " ">> \o str_Overview \o <<"\r">>

\* the documents an input file may hold
DocPool ==
    { <<line_overview, line_pic>>,
      <<line_started, line_external>>,
      <<line_overview, line_overview, line_cdn>>,
      <<line_pic, line_nested>>,
      <<line_parent, line_assets>>,
      <<line_started, line_pic, line_pic>>,
      <<line_crlf, line_amp>> }

\* the image files that may exist, each with its bytes
disk_all ==
    (Cwd \o <<Slash, "a", Slash>> \o str_pic_png                     :> <<137>>)
 @@ (Cwd \o <<Slash, "b", Slash>> \o str_pic_png                     :> <<80, 78>>)
 @@ (Cwd \o <<Slash>> \o str_pic_png                                 :> <<71, 73, 70>>)
 @@ (Cwd \o <<Slash, "a", Slash>> \o str_images \o <<Slash>> \o str_pic_png :> <<255, 216, 255, 224>>)
 @@ (str__assets \o str_logo_png                                     :> <<0>>)
 @@ (Cwd \o <<Slash, "a", Slash>> \o str_qa_png                      :> <<1, 2>>)

disk_a_only ==
    (Cwd \o <<Slash, "a", Slash>> \o str_pic_png :> <<137>>)

DiskPool == {disk_all, disk_a_only}

\* options.remap left empty: the default mapping stays
option_none == <<>>

\* the orders in which traverseDirectory can list up to MaxFiles files
RECURSIVE FileLists(_)
FileLists(n) ==
    IF n = 0 THEN {<<>>}
    ELSE LET shorter == FileLists(n - 1)
         IN  shorter \cup {Append(l, f) : l \in {x \in shorter : Len(x) = n - 1},
                                          f \in FilePool}

DistinctLists == {l \in FileLists(MaxFiles) :
                     l # <<>> /\ \A i, j \in 1..Len(l) : i # j => l[i] # l[j]}

-----------------------------------------------------------------------------
(* convertToHtml, convertToPdf, and the dispatch at the end of the module *)

str_html == <<".", "h", "t", "m", "l">>
str_pdf  == <<".", "p", "d", "f">>
str_combined == <<"c","o","m","b","i","n","e","d">>
str_debug    == <<"d","e","b","u","g","-">>
str_documentation == <<"M","a","r","k","d","o","w","n"," ",
                       "D","o","c","u","m","e","n","t","a","t","i","o","n">>

\* fullHtml: the title, the table of contents and the body; from is history,
\* the input files the document was assembled from
HtmlFile(title, toc, body, from) ==
    [kind |-> "html", bytes |-> <<>>, title |-> title, toc |-> toc,
     body |-> body, from |-> from]

\* what page.pdf writes for the content the page holds
PdfFile(doc) == [doc EXCEPT !.kind = "pdf"]

\* `## ${path.basename(file)}\n\n${content}\n\n`, as lines
FileChunk(file) ==
    << <<Hash, Hash, " ">> \o basename(file), <<>> >> \o content[file] \o << <<>> >>

\* the map callback of the combined modes: the text gets the file's base
\* name, the id is derived from the new text
Qualify(heading, file) ==
    LET text == heading.text \o <<" ", "(">> \o basename(file) \o <<")">>
    IN  [level |-> heading.level, text |-> text, id |-> slugify(text)]

\* fileHeadings.map(...) over the headings of one file
QualifyAll(fileHeadings, file) ==
    [k \in 1..Len(fileHeadings) |-> Qualify(fileHeadings[k], file)]

FileHeadings(file) == QualifyAll(extractHeadings(content[file]), file)

\* path.join(outputDir, `${prefix}${path.basename(file, ".md")}${ext}`)
OutputName(file, prefix, ext) ==
    join(outputDir, prefix \o basenameExt(file, str_md) \o ext)

Unchanged_inputs == UNCHANGED <<files, content, srcFs, mappings, format, single>>
Unchanged_call   == UNCHANGED <<fn, arg, ret>>
Unchanged_pdf    == UNCHANGED <<browser, fullHtml, page, caught, events>>
Unchanged_all    == UNCHANGED <<allContent, allHeadings, allImagePaths, allImageOutputPaths>>

\* lines 817-831: the format picks the driver
Main ==
    /\ pc = "start"
    /\ pc' = IF format = "pdf" THEN "launch"
             ELSE IF single THEN "html_collect" ELSE "html_each"
    /\ UNCHANGED <<idx, outFs, lookups>>
    /\ Unchanged_inputs /\ Unchanged_call /\ Unchanged_pdf /\ Unchanged_all

\* convertToHtml, single output: one pass of files.forEach
HtmlCollect ==
    /\ pc = "html_collect"
    /\ idx <= Len(files)
    /\ \E file \in {files[idx]} :
       \E imagePaths \in {extractImagePaths(content[file])} :
       \E copied \in {copyImages(file, imagePaths, CopyState(outFs, lookups))} :
           /\ allContent' = allContent \o FileChunk(file)
           /\ allHeadings' = allHeadings \o FileHeadings(file)
           /\ allImagePaths' = allImagePaths \o imagePaths
           /\ allImageOutputPaths' = allImageOutputPaths \o copied.paths
           /\ outFs' = copied.fs
           /\ lookups' = copied.looked
    /\ idx' = idx + 1
    /\ UNCHANGED pc
    /\ Unchanged_inputs /\ Unchanged_call /\ Unchanged_pdf

\* convertToHtml, single output: after the loop, combined.html is written
HtmlCombine ==
    /\ pc = "html_collect"
    /\ idx > Len(files)
    /\ \E toc \in {generateTOC(allHeadings)} :
       \E htmlContent \in {md_render(allContent)} :
       \E htmlWithIds \in {addHeadingIds(htmlContent, allHeadings)} :
       \E htmlWithImages \in {processHtmlImagesForHtml(htmlWithIds, allImagePaths,
                                                       allImageOutputPaths)} :
           outFs' = WriteFile(outFs, join(outputDir, str_combined \o str_html),
                              HtmlFile(str_documentation, toc, htmlWithImages, files))
    /\ pc' = "done"
    /\ UNCHANGED <<idx, lookups>>
    /\ Unchanged_inputs /\ Unchanged_call /\ Unchanged_pdf /\ Unchanged_all

\* convertToHtml, one output per file: one pass of files.forEach
HtmlEach ==
    /\ pc = "html_each"
    /\ idx <= Len(files)
    /\ \E file \in {files[idx]} :
       \E headings \in {extractHeadings(content[file])} :
       \E toc \in {generateTOC(headings)} :
       \E htmlContent \in {md_render(content[file])} :
       \E htmlWithIds \in {addHeadingIds(htmlContent, headings)} :
       \E imagePaths \in {extractImagePaths(content[file])} :
       \E copied \in {copyImages(file, imagePaths, CopyState(outFs, lookups))} :
       \E htmlWithImages \in {processHtmlImagesForHtml(htmlWithIds, imagePaths,
                                                       copied.paths)} :
           /\ outFs' = WriteFile(copied.fs, OutputName(file, <<>>, str_html),
                                 HtmlFile(basenameExt(file, str_md), toc,
                                          htmlWithImages, <<file>>))
           /\ lookups' = copied.looked
    /\ idx' = idx + 1
    /\ pc' = IF idx = Len(files) THEN "done" ELSE pc
    /\ Unchanged_inputs /\ Unchanged_call /\ Unchanged_pdf /\ Unchanged_all

\* convertToPdf: puppeteer.launch, browser.newPage and page.setViewport resolve
Launch ==
    /\ pc = "launch"
    /\ browser' = "open"
    /\ events' = Append(events, [op |-> "launch", unit |-> <<>>])
    /\ pc' = IF single THEN "pdf_collect" ELSE "pdf_each"
    /\ UNCHANGED <<idx, outFs, lookups, fullHtml, page, caught>>
    /\ Unchanged_inputs /\ Unchanged_call /\ Unchanged_all

\* puppeteer.launch rejects: the promise of convertToPdf rejects, .catch runs
LaunchFails ==
    /\ pc = "launch"
    /\ caught' = TRUE
    /\ events' = Append(events, [op |-> "catch", unit |-> <<>>])
    /\ pc' = "failed"
    /\ UNCHANGED <<idx, outFs, lookups, browser, fullHtml, page>>
    /\ Unchanged_inputs /\ Unchanged_call /\ Unchanged_all

\* convertToPdf, single output: one pass of the first files.forEach
PdfCollect ==
    /\ pc = "pdf_collect"
    /\ idx <= Len(files)
    /\ \E file \in {files[idx]} :
       \E imagePaths \in {extractImagePaths(content[file])} :
           /\ allContent' = allContent \o FileChunk(file)
           /\ allHeadings' = allHeadings \o FileHeadings(file)
           /\ allImagePaths' = allImagePaths
                  \o [k \in 1..Len(imagePaths) |-> [path |-> imagePaths[k], sourceFile |-> file]]
    /\ idx' = idx + 1
    /\ UNCHANGED <<pc, allImageOutputPaths, outFs, lookups>>
    /\ Unchanged_inputs /\ Unchanged_call /\ Unchanged_pdf

\* for (const file of files) htmlWithBase64Images = convertImagesToBase64(file, ...)
RECURSIVE EmbedForEachFile(_, _)
EmbedForEachFile(fs, st) ==
    IF fs = <<>> THEN st
    ELSE EmbedForEachFile(Tail(fs), convertImagesToBase64(Head(fs), st))

\* convertToPdf, single output: from the end of the loop to the write of
\* debug-combined.html, up to the await of page.setContent
PdfCombine ==
    /\ pc = "pdf_collect"
    /\ idx > Len(files)
    /\ \E toc \in {generateTOC(allHeadings)} :
       \E htmlContent \in {md_render(allContent)} :
       \E htmlWithIds \in {addHeadingIds(htmlContent, allHeadings)} :
       \E embedded \in {EmbedForEachFile(files, [html |-> htmlWithIds,
                                                    looked |-> lookups])} :
           /\ fullHtml' = HtmlFile(str_documentation, toc, embedded.html, files)
           /\ outFs' = WriteFile(outFs,
                                 join(outputDir, str_debug \o str_combined \o str_html),
                                 fullHtml')
           /\ lookups' = embedded.looked
    /\ events' = Append(events, [op |-> "setContent", unit |-> files])
    /\ pc' = "pdf_setcontent"
    /\ UNCHANGED <<idx, browser, page, caught>>
    /\ Unchanged_inputs /\ Unchanged_call /\ Unchanged_all

\* convertToPdf, one output per file: the body of the for loop up to the
\* await of page.setContent
PdfEach ==
    /\ pc = "pdf_each"
    /\ idx <= Len(files)
    /\ \E file \in {files[idx]} :
       \E headings \in {extractHeadings(content[file])} :
       \E toc \in {generateTOC(headings)} :
       \E htmlContent \in {md_render(content[file])} :
       \E htmlWithIds \in {addHeadingIds(htmlContent, headings)} :
       \E embedded \in {convertImagesToBase64(file, [html |-> htmlWithIds,
                                                        looked |-> lookups])} :
           /\ fullHtml' = HtmlFile(basenameExt(file, str_md), toc, embedded.html, <<file>>)
           /\ outFs' = WriteFile(outFs, OutputName(file, str_debug, str_html), fullHtml')
           /\ lookups' = embedded.looked
    /\ events' = Append(events, [op |-> "setContent", unit |-> <<files[idx]>>])
    /\ pc' = "pdf_setcontent"
    /\ UNCHANGED <<idx, browser, page, caught>>
    /\ Unchanged_inputs /\ Unchanged_call /\ Unchanged_all

\* await page.setContent(fullHtml, ...) resolves
SetContent ==
    /\ pc = "pdf_setcontent"
    /\ page' = fullHtml
    /\ pc' = "pdf_print"
    /\ UNCHANGED <<idx, outFs, lookups, browser, fullHtml, caught, events>>
    /\ Unchanged_inputs /\ Unchanged_call /\ Unchanged_all

\* a variant of SetContentFails: the rejection is caught inside the loop and
\* the loop goes on with the next file
SetContentSkips ==
    /\ pc = "pdf_setcontent"
    /\ idx' = IF single THEN idx ELSE idx + 1
    /\ pc' = IF single THEN "close" ELSE "pdf_each"
    /\ UNCHANGED <<outFs, lookups, browser, fullHtml, page, caught, events>>
    /\ Unchanged_inputs /\ Unchanged_call /\ Unchanged_all

\* await page.setContent rejects (the timeout, a render error): nothing in
\* convertToPdf catches it, so browser.close() is not reached
SetContentFails ==
    /\ pc = "pdf_setcontent"
    /\ caught' = TRUE
    /\ events' = Append(events, [op |-> "catch", unit |-> <<>>])
    /\ pc' = "failed"
    /\ UNCHANGED <<idx, outFs, lookups, browser, fullHtml, page>>
    /\ Unchanged_inputs /\ Unchanged_call /\ Unchanged_all

\* await page.pdf({ path, ... }) resolves: the PDF of the unit is on disk
PrintPdf ==
    /\ pc = "pdf_print"
    /\ outFs' = WriteFile(outFs,
                          IF single THEN join(outputDir, str_combined \o str_pdf)
                          ELSE OutputName(files[idx], <<>>, str_pdf),
                          PdfFile(page))
    /\ idx' = IF single THEN idx ELSE idx + 1
    /\ events' = Append(events, [op |-> "pdf", unit |-> page.from])
    /\ pc' = IF single THEN "close" ELSE "pdf_each"
    /\ UNCHANGED <<lookups, browser, fullHtml, page, caught>>
    /\ Unchanged_inputs /\ Unchanged_call /\ Unchanged_all

\* await page.pdf rejects
PrintPdfFails ==
    /\ pc = "pdf_print"
    /\ caught' = TRUE
    /\ events' = Append(events, [op |-> "catch", unit |-> <<>>])
    /\ pc' = "failed"
    /\ UNCHANGED <<idx, outFs, lookups, browser, fullHtml, page>>
    /\ Unchanged_inputs /\ Unchanged_call /\ Unchanged_all

\* await browser.close(), after the last unit
Close ==
    /\ \/ pc = "close"
       \/ pc = "pdf_each" /\ idx > Len(files)
    /\ browser' = "closed"
    /\ events' = Append(events, [op |-> "close", unit |-> <<>>])
    /\ pc' = "done"
    /\ UNCHANGED <<idx, outFs, lookups, fullHtml, page, caught>>
    /\ Unchanged_inputs /\ Unchanged_call /\ Unchanged_all

\* no document yet
NoDocument == HtmlFile(<<>>, <<>>, <<>>, <<>>)

\* the state when the module has parsed its options and listed the files
Init ==
    /\ files \in DistinctLists
    /\ content \in [Range(files) -> DocPool]
    /\ srcFs \in DiskPool
    /\ mappings = ParseRemap(option_none)
    /\ format \in {"html", "pdf"}
    /\ single \in BOOLEAN
    /\ pc = "start"
    /\ idx = 1
    /\ allContent = <<>>
    /\ allHeadings = <<>>
    /\ allImagePaths = <<>>
    /\ allImageOutputPaths = <<>>
    /\ outFs = <<>>
    /\ browser = "none"
    /\ fullHtml = NoDocument
    /\ page = NoDocument
    /\ caught = FALSE
    /\ lookups = {}
    /\ events = <<>>
    /\ fn = "main"
    /\ arg = <<>>
    /\ ret = <<>>

Next ==
    \/ Main
    \/ HtmlCollect
    \/ HtmlCombine
    \/ HtmlEach
    \/ Launch
    \/ LaunchFails
    \/ PdfCollect
    \/ PdfCombine
    \/ PdfEach
    \/ SetContent
    \/ SetContentFails
    \/ PrintPdf
    \/ PrintPdfFails
    \/ Close

Spec == Init /\ [][Next]_vars

-----------------------------------------------------------------------------
(* one call of extractHeadings and of the map callback of the combined      *)
(* modes, on a heading line of any short text                               *)

\* the longest heading text of SlugTexts, but for the two texts it names
MaxSlugLen == 3

SlugChars == {"G", "s", "1", " ", "-", ".", "&"}

str_qualified_guide == str_Getting_Started \o <<" ", "(">> \o str_guide_md \o <<")">>

SlugTexts ==
    UNION {[1..n -> SlugChars] : n \in 1..MaxSlugLen}
    \cup {str_Getting_Started, str_qualified_guide}

SlugInit ==
    /\ fn = "extractHeadings"
    /\ arg \in SlugTexts
    /\ ret = <<>>
    /\ pc = "call"
    /\ files = <<>>
    /\ content = <<>>
    /\ srcFs = <<>>
    /\ mappings = DefaultMappings
    /\ format = "html"
    /\ single = TRUE
    /\ idx = 1
    /\ allContent = <<>>
    /\ allHeadings = <<>>
    /\ allImagePaths = <<>>
    /\ allImageOutputPaths = <<>>
    /\ outFs = <<>>
    /\ browser = "none"
    /\ fullHtml = NoDocument
    /\ page = NoDocument
    /\ caught = FALSE
    /\ lookups = {}
    /\ events = <<>>

\* extractHeadings on the one-line document "## <arg>"
CallExtractHeadings ==
    /\ pc = "call"
    /\ ret' = extractHeadings(<< <<Hash, Hash, " ">> \o arg >>)
    /\ pc' = "extracted"
    /\ UNCHANGED <<fn, arg, idx, outFs, lookups>>
    /\ Unchanged_inputs /\ Unchanged_pdf /\ Unchanged_all

\* fileHeadings.map(...) of the combined modes, for any input file
CallQualify ==
    /\ pc = "extracted"
    /\ \E file \in FilePool : ret' = QualifyAll(ret, file)
    /\ fn' = "qualify"
    /\ pc' = "qualified"
    /\ UNCHANGED <<arg, idx, outFs, lookups>>
    /\ Unchanged_inputs /\ Unchanged_pdf /\ Unchanged_all

SlugNext == CallExtractHeadings \/ CallQualify

SpecSlug == SlugInit /\ [][SlugNext]_vars

-----------------------------------------------------------------------------
(* one call of addHeadingIds, on rendered markup of a few elements and the  *)
(* heading records of a few heading lines                                   *)

\* the most elements of the markup, and the most heading lines
MaxElements == 3
MaxRecords == 2

\* html is any markup of up to MaxElements elements: plain headings, a
\* heading that carries an id already, a paragraph; headings is what
\* extractHeadings returns for up to MaxRecords heading lines
IdsInit ==
    /\ fn = "addHeadingIds"
    /\ \E n \in 0..MaxElements, m \in 0..MaxRecords :
       \E html \in [1..n -> { HeadingElement(2, str_Overview),
                              HeadingElement(3, str_Overview),
                              HeadingElement(2, <<"a", "$", "$">>),
                              [HeadingElement(2, str_Overview) EXCEPT !.hasId = TRUE,
                                                                      !.id = <<"x">>],
                              ParagraphElement(str_Overview) }] :
       \E lines \in [1..m -> { line_overview,
                               <<Hash>> \o line_overview,
                               <<Hash, Hash, " ", "a", "$", "$">> }] :
           arg = [html |-> html, headings |-> extractHeadings(lines)]
    /\ ret = <<>>
    /\ pc = "call"
    /\ files = <<>>
    /\ content = <<>>
    /\ srcFs = <<>>
    /\ mappings = DefaultMappings
    /\ format = "html"
    /\ single = FALSE
    /\ idx = 1
    /\ allContent = <<>>
    /\ allHeadings = <<>>
    /\ allImagePaths = <<>>
    /\ allImageOutputPaths = <<>>
    /\ outFs = <<>>
    /\ browser = "none"
    /\ fullHtml = NoDocument
    /\ page = NoDocument
    /\ caught = FALSE
    /\ lookups = {}
    /\ events = <<>>

\* addHeadingIds(html, headings) returns
CallAddHeadingIds ==
    /\ pc = "call"
    /\ fn = "addHeadingIds"
    /\ ret' = addHeadingIds(arg.html, arg.headings)
    /\ pc' = "returned"
    /\ UNCHANGED <<fn, arg, idx, outFs, lookups>>
    /\ Unchanged_inputs /\ Unchanged_pdf /\ Unchanged_all

SpecIds == IdsInit /\ [][CallAddHeadingIds]_vars

-----------------------------------------------------------------------------
(* what the claims speak of *)

\* a run that ended without a rejection
Finished == pc = "done" /\ ~caught

\* the documents the run produced in its output format
FinalDocs == {outFs[p] : p \in {q \in DOMAIN outFs : outFs[q].kind = format}}

\* the image references of input file f in source order, each with its source
References(f) ==
    [k \in 1..Len(extractImagePaths(content[f])) |->
        [source |-> f, raw |-> extractImagePaths(content[f])[k]]]

\* the references of the inputs a document was assembled from
ReferencesOf(doc) == Flatten([i \in 1..Len(doc.from) |-> References(doc.from[i])])

\* the image elements of a document, in order: the k-th renders the k-th reference
Images(doc) == SelectSeq(doc.body, LAMBDA e : e.tag = "img")

\* the value an HTML parser reads from the text of an attribute
AttributeValue(text) == ReplaceAll(text, <<"&","a","m","p",";">>, <<"&">>)

IsLocal(ref) == ~IsExternal(ref.raw)

\* the file a reference names: the remapped reference, resolved against the
\* directory of the document the reference is in
Target(ref) == resolve(dirname(ref.source), ApplyMappings(ref.raw, mappings))

\* the heading records of the inputs of a document, before any qualification
Originals(doc) ==
    Flatten([i \in 1..Len(doc.from) |-> extractHeadings(content[doc.from[i]])])

\* the number of heading records the files before files[i] contribute
RECURSIVE HeadingsBefore(_)
HeadingsBefore(i) ==
    IF i <= 1 THEN 0
    ELSE HeadingsBefore(i - 1) + Len(extractHeadings(content[files[i - 1]]))

\* the index of the file the p-th record of allHeadings comes from
SourceOfRecord(p) ==
    CHOOSE i \in 1..Len(files) : HeadingsBefore(i) < p /\ p <= HeadingsBefore(i + 1)

\* C1: in combined mode two heading records that come from different source
\* documents never have the same anchor id, whatever the paths of the inputs
C1_DistinctAnchors ==
    (single /\ Finished) =>
        \A p, q \in 1..Len(allHeadings) :
            SourceOfRecord(p) # SourceOfRecord(q)
                => allHeadings[p].id # allHeadings[q].id

\* C2: in every mode, for each heading record: when the markup holds a heading
\* element of the record's level whose inner text is the record's original
\* (pre-qualification) trimmed text, such an element carries the record's
\* anchor id, the target of the record's TOC link
C2_AnchorsInjected ==
    Finished =>
        \A doc \in FinalDocs :
            /\ Len(doc.toc) = Len(Originals(doc))
            /\ \A k \in 1..Len(doc.toc) :
                  LET same == {j \in 1..Len(doc.body) :
                                  /\ doc.body[j].tag = "h"
                                  /\ doc.body[j].level = Originals(doc)[k].level
                                  /\ trim(doc.body[j].inner) = Originals(doc)[k].text}
                  IN  same # {} =>
                          \E j \in same : /\ doc.body[j].hasId
                                          /\ <<"#">> \o doc.body[j].id = doc.toc[k].href

\* C3: in linked mode, after the run, every reference with no matching remap
\* rule whose target file existed points, relative to the output directory,
\* to a file with the bytes of the reference's own source file
C3_CopiesIdentical ==
    (format = "html" /\ Finished) =>
        \A doc \in FinalDocs :
            /\ Len(Images(doc)) = Len(ReferencesOf(doc))
            /\ \A k \in 1..Len(Images(doc)) :
                  LET ref == ReferencesOf(doc)[k]
                      out == join(outputDir, AttributeValue(Images(doc)[k].src))
                  IN  (/\ IsLocal(ref)
                       /\ ApplyMappings(ref.raw, mappings) = ref.raw
                       /\ Target(ref) \in DOMAIN srcFs)
                      => /\ out \in DOMAIN outFs
                         /\ outFs[out].kind = "image"
                         /\ outFs[out].bytes = srcFs[Target(ref)]

\* C4: in linked mode, per file and combined, a reference whose resolved file
\* does not exist still has the raw path as its src in the final markup
C4_MissingUnchanged ==
    (format = "html" /\ Finished) =>
        \A doc \in FinalDocs :
            \A k \in 1..Len(Images(doc)) :
                LET ref == ReferencesOf(doc)[k]
                IN  (IsLocal(ref) /\ Target(ref) \notin DOMAIN srcFs)
                    => AttributeValue(Images(doc)[k].src) = ref.raw

\* C5: in embedded mode, per file and combined, a local image element holds
\* the data URI of the file its reference names from its own document when
\* that file exists, and the untouched reference otherwise
C5_EmbeddedFromOwnDocument ==
    (format = "pdf" /\ Finished) =>
        \A doc \in FinalDocs :
            \A k \in 1..Len(Images(doc)) :
                LET ref == ReferencesOf(doc)[k]
                IN  IsLocal(ref) =>
                        AttributeValue(Images(doc)[k].src)
                            = IF Target(ref) \in DOMAIN srcFs
                              THEN dataUri(Target(ref), srcFs[Target(ref)])
                              ELSE ref.raw

\* C6: in both modes, per file and combined, a reference that starts with
\* http:// or https:// in any letter case is in the final markup as the
\* identical string, and no filesystem lookup was made for it
C6_ExternalUntouched ==
    Finished =>
        \A doc \in FinalDocs :
            \A k \in 1..Len(Images(doc)) :
                LET ref == ReferencesOf(doc)[k]
                IN  ~IsLocal(ref) =>
                        /\ AttributeValue(Images(doc)[k].src) = ref.raw
                        /\ \A l \in lookups : AttributeValue(l.raw) # ref.raw

\* the characters that separate the words of an anchor id
SlugSeparators == Whitespace \cup {"-"}

\* what one character of a word contributes to an anchor id
SpelledOut(c) ==
    CASE c \in AlphaNum -> <<LowerChar(c)>>
      [] c = "&"        -> <<"a","n","d">>
      [] c = "$"        -> <<"d","o","l","l","a","r">>
      [] c = "%"        -> <<"p","e","r","c","e","n","t">>
      [] OTHER          -> <<>>

\* the non-empty words of a text: `word' is the word being read
RECURSIVE SlugWords(_, _)
SlugWords(text, word) ==
    IF text = <<>> THEN (IF word = <<>> THEN <<>> ELSE <<word>>)
    ELSE IF Head(text) \in SlugSeparators
    THEN (IF word = <<>> THEN <<>> ELSE <<word>>) \o SlugWords(Tail(text), <<>>)
    ELSE SlugWords(Tail(text), word \o SpelledOut(Head(text)))

\* the lowercased text cut at every character that is no letter and no digit
RECURSIVE AlphaNumRuns(_, _)
AlphaNumRuns(text, word) ==
    IF text = <<>> THEN (IF word = <<>> THEN <<>> ELSE <<word>>)
    ELSE IF Head(text) \notin AlphaNum
    THEN (IF word = <<>> THEN <<>> ELSE <<word>>) \o AlphaNumRuns(Tail(text), <<>>)
    ELSE AlphaNumRuns(Tail(text), Append(word, LowerChar(Head(text))))

str_getting_started == <<"g","e","t","t","i","n","g","-","s","t","a","r","t","e","d">>

\* C7, as amended: the anchor id of a heading record is a function of its
\* (possibly qualified) text: whitespace and hyphens separate words; in a word
\* letters and digits are kept, lowercased, "&", "$" and "%" are spelled out
\* and every other character is removed; the non-empty words are joined by
\* single hyphens.  The id holds only lowercase letters, digits and hyphens;
\* "Getting Started" gives "getting-started" and "Getting Started (guide.md)"
\* gives "getting-started-guidemd".
C7_AnchorId ==
    pc \in {"extracted", "qualified"} =>
        \A k \in 1..Len(ret) :
            /\ ret[k].id = Join(SlugWords(ret[k].text, <<>>), <<"-">>)
            /\ Range(ret[k].id) \subseteq Range(LowerCase) \cup Digits \cup {"-"}
            /\ ret[k].text = str_Getting_Started => ret[k].id = str_getting_started
            /\ ret[k].text = str_qualified_guide
                   => ret[k].id = str_getting_started \o <<"-","g","u","i","d","e","m","d">>

\* C7, reached: the record of "## Getting Started", qualified with guide.md
C7_QualifiedGuide ==
    /\ pc = "qualified"
    /\ arg = str_Getting_Started
    /\ Len(ret) = 1
    /\ ret[1].text = str_qualified_guide
    /\ ret[1].id = str_getting_started \o <<"-","g","u","i","d","e","m","d">>

\* C7, as written: the id is the lowercased text with every maximal run of
\* non-alphanumeric characters replaced by one hyphen and the hyphens at both
\* ends trimmed; "Getting Started (guide.md)" gives "getting-started-guide-md"
C7_RunsHyphenated ==
    pc \in {"extracted", "qualified"} =>
        \A k \in 1..Len(ret) :
            /\ ret[k].id = Join(AlphaNumRuns(ret[k].text, <<>>), <<"-">>)
            /\ ret[k].text = str_qualified_guide
                   => ret[k].id = str_getting_started \o <<"-","g","u","i","d","e","-","m","d">>

\* does a line start with 1 to 6 "#", then whitespace, then non-empty text
IsHeadingLine(line) ==
    \E n \in 1..MaxHeadingLevel :
        /\ n + 1 < Len(line)
        /\ \A p \in 1..n : line[p] = Hash
        /\ line[n + 1] \in Whitespace
        /\ \E p \in (n + 2)..Len(line) : line[p] \notin Whitespace

\* the number of "#" a heading line starts with
HashCount(line) == Max({n \in 1..MaxHeadingLevel : \A p \in 1..n : line[p] = Hash})

\* the heading lines of the inputs of a document, in source order
HeadingLines(doc) ==
    SelectSeq(Flatten([i \in 1..Len(doc.from) |-> content[doc.from[i]]]), IsHeadingLine)

\* C8: the TOC made from a source text has exactly one entry per line that
\* starts with 1 to 6 "#" followed by whitespace and non-empty text, in source
\* order; each entry links to "#" and an id, has the class of its level and
\* is indented by 20 x (level - 1)
C8_TocEntryPerHeadingLine ==
    Finished =>
        \A doc \in FinalDocs :
            /\ Len(doc.toc) = Len(HeadingLines(doc))
            /\ \A k \in 1..Len(doc.toc) :
                  /\ doc.toc[k].class = HashCount(HeadingLines(doc)[k])
                  /\ tocLevelPadding[doc.toc[k].class] = 20 * (doc.toc[k].class - 1)
                  /\ Len(doc.toc[k].href) > 1
                  /\ doc.toc[k].href[1] = "#"

\* C9: for every local image reference, the path of its filesystem lookup
\* is the raw reference with the remap rules applied in list order, each
\* rule replacing every occurrence of its pattern
C9_LookupIsRemappedReference ==
    Finished =>
        \A doc \in FinalDocs :
            \A k \in 1..Len(ReferencesOf(doc)) :
                LET ref == ReferencesOf(doc)[k]
                IN  IsLocal(ref) =>
                        \E l \in lookups : l.path = ApplyMappings(ref.raw, mappings)

\* C10: in per-file mode, after a successful run, every input document has
\* its own output <basename>.html or <basename>.pdf in the output directory,
\* assembled from that document
C10_OutputPerInput ==
    (~single /\ Finished) =>
        \A f \in Range(files) :
            LET out == join(outputDir, basenameExt(f, str_md)
                                       \o (IF format = "pdf" THEN str_pdf ELSE str_html))
            IN  /\ out \in DOMAIN outFs
                /\ outFs[out].kind = format
                /\ outFs[out].from = <<f>>

\* the calls of one kind, in the order they were made
EventsOf(op) == SelectSeq(events, LAMBDA e : e.op = op)

\* the units whose render was started, and the units whose PDF was written
Started == EventsOf("setContent")
Printed == EventsOf("pdf")

\* a run that writes one PDF per input file
PerFilePdf == format = "pdf" /\ ~single

\* C11, at every point of a per-file PDF run: the inputs whose PDF has been
\* written and the inputs whose render was started are prefixes of the
\* discovery order, the render of a unit is started only when the PDFs of
\* all units before it are written, and every PDF on disk is one of these
C11_PrefixOfDiscoveryOrder ==
    PerFilePdf =>
        /\ Len(Started) <= Len(files)
        /\ \A k \in 1..Len(Started) : Started[k].unit = <<files[k]>>
        /\ \A k \in 1..Len(Printed) : Printed[k].unit = <<files[k]>>
        /\ Len(Printed) <= Len(Started)
        /\ Len(Started) <= Len(Printed) + 1
        /\ \A k \in 1..Len(Printed) : OutputName(files[k], <<>>, str_pdf) \in DOMAIN outFs
        /\ \A q \in DOMAIN outFs :
              outFs[q].kind = "pdf" => \E k \in 1..Len(Printed) : outFs[q].from = Printed[k].unit
        /\ pc = "failed" => caught

\* C11, for every step of a per-file PDF run: a step in which the renderer
\* fails hands the error to the top-level handler, starts no unit and leaves
\* every file on disk as it is; once the handler has run, no unit is started
\* and no file is written
C11_FailureHalts ==
    PerFilePdf =>
        /\ (pc' = "failed" \/ caught') => (caught' /\ outFs' = outFs /\ Started' = Started)
        /\ caught => (caught' /\ outFs' = outFs /\ events' = events)

\* C11: in per-file PDF mode the units are processed one at a time in
\* discovery order, and a failure of the renderer on a unit reaches the
\* top-level handler, starts no later unit and leaves the PDFs written
\* before on disk unchanged
C11_OneUnitAtATime == []C11_PrefixOfDiscoveryOrder /\ [][C11_FailureHalts]_vars

\* C11, reached: the renderer failed on the second unit after the PDF of the
\* first was written
C11_SecondUnitFailed ==
    /\ PerFilePdf
    /\ caught
    /\ Len(files) = MaxFiles
    /\ Len(Started) = 2
    /\ Len(Printed) = 1
    /\ outFs[OutputName(files[1], <<>>, str_pdf)].from = <<files[1]>>

\* the reference copyImages returns for a reference: the place of the copy
\* when the file the reference names exists, the reference itself otherwise
Resolved(ref) ==
    IF IsLocal(ref) /\ Target(ref) \in DOMAIN srcFs
    THEN NewReference(RelativeDir(ApplyMappings(ref.raw, mappings)), basename(Target(ref)))
    ELSE ref.raw

\* C12: in linked mode, after the run, every image element whose src literal
\* was the raw path p has as its src the new reference the resolver computed
\* for p (for one of the references that are p): no element is rewritten
\* again because a new reference equals the raw path of a later reference
C12_SrcIsNewReference ==
    (format = "html" /\ Finished) =>
        \A doc \in FinalDocs :
            \A k \in 1..Len(Images(doc)) :
                LET refs == ReferencesOf(doc)
                IN  escapeHtml(refs[k].raw) = refs[k].raw =>
                        \E j \in 1..Len(refs) : /\ refs[j].raw = refs[k].raw
                                                 /\ Images(doc)[k].src = Resolved(refs[j])

\* the r-th smallest number of a set
Nth(S, r) == CHOOSE x \in S : Cardinality({y \in S : y <= x}) = r

\* the elements of the markup a record matches: headings of its level with
\* no id whose trimmed inner text is the record's text, by position
MatchesOf(html, heading) ==
    {p \in 1..Len(html) : /\ html[p].tag = "h"
                          /\ html[p].level = heading.level
                          /\ ~html[p].hasId
                          /\ trim(html[p].inner) = trim(heading.text)}

\* how many records up to the i-th have the level and the text of the i-th
RankOf(headings, i) ==
    Cardinality({j \in 1..i : /\ headings[j].level = headings[i].level
                              /\ headings[j].text = headings[i].text})

\* does the i-th record have an element: its rank is within its matches
HasElement(html, headings, i) ==
    RankOf(headings, i) <= Cardinality(MatchesOf(html, headings[i]))

\* the element of the i-th record: the match of its rank
ElementOf(html, headings, i) == Nth(MatchesOf(html, headings[i]), RankOf(headings, i))

\* C13: addHeadingIds binds a record to at most one element and an element
\* to at most one record: of the records with one level and text, the i-th
\* puts its id into the i-th matching element in source order, and a record
\* with no matching element changes nothing; every other element stays
C13_BoundInSourceOrder ==
    (fn = "addHeadingIds" /\ pc = "returned") =>
        /\ Len(ret) = Len(arg.html)
        /\ \A i \in 1..Len(arg.headings) :
              HasElement(arg.html, arg.headings, i) =>
                  LET e == ret[ElementOf(arg.html, arg.headings, i)]
                  IN  /\ e.tag = "h"
                      /\ e.level = arg.headings[i].level
                      /\ e.hasId
                      /\ e.id = arg.headings[i].id
        /\ \A p \in 1..Len(arg.html) :
              (\A i \in 1..Len(arg.headings) :
                   HasElement(arg.html, arg.headings, i)
                       => ElementOf(arg.html, arg.headings, i) # p)
              => ret[p] = arg.html[p]

\* C13, reached: two records of one level and text and three matching
\* elements: the first two elements carry the id, the third is as it was
C13_TwoOfThree ==
    /\ fn = "addHeadingIds"
    /\ pc = "returned"
    /\ Len(arg.headings) = 2
    /\ arg.headings[1] = arg.headings[2]
    /\ Cardinality(MatchesOf(arg.html, arg.headings[1])) = 3
    /\ ret[1].hasId /\ ret[1].id = arg.headings[1].id
    /\ ret[2].hasId /\ ret[2].id = arg.headings[2].id
    /\ ret[3] = arg.html[3]

\* is a path of the output tree below the images/ directory of outputDir
InImages(q) == OccursAt(q, outputDir \o <<Slash>> \o str_images \o <<Slash>>, 1)

\* C14: in linked mode, every copy the resolver writes is inside the images/
\* subtree of the output directory, and for every local reference whose file
\* exists, with ".." segments or absolute after remapping as well, the
\* returned reference names a copy inside that subtree
C14_CopiesInsideImages ==
    (format = "html" /\ Finished) =>
        /\ \A q \in DOMAIN outFs : outFs[q].kind = "image" => InImages(q)
        /\ \A f \in Range(files) :
              \A k \in 1..Len(References(f)) :
                  LET ref == References(f)[k]
                      out == join(outputDir, Resolved(ref))
                  IN  (IsLocal(ref) /\ Target(ref) \in DOMAIN srcFs)
                      => /\ out \in DOMAIN outFs
                         /\ outFs[out].kind = "image"
                         /\ InImages(out)

\* has the run ended: convertToPdf returned, or the handler of main has run
Ended == pc \in {"done", "failed"}

\* C15: in every PDF run the browser and its page are acquired once, before
\* the first unit, are used by one unit at a time, and are released when the
\* run has ended, whether all units were done or a render failed
C15_SurfaceReleased ==
    format = "pdf" =>
        /\ Len(EventsOf("launch")) <= 1
        /\ Started # <<>> => events[1].op = "launch"
        /\ Len(Printed) <= Len(Started)
        /\ Len(Started) <= Len(Printed) + 1
        /\ (Ended /\ EventsOf("launch") # <<>>)
               => /\ browser = "closed"
                  /\ Len(EventsOf("close")) = 1

====
